---- MODULE Spec2Model ----
(***************************************************************************)
(* A model of hermpy/trajectory.py (MercuryTools): the ephemeris queries,  *)
(* the trajectory sampler, the aberration transform and the two apoapsis   *)
(* finders.                                                                *)
(*                                                                         *)
(* Time.  A datetime is a whole number of seconds counted from             *)
(* datetime.min (0) up to datetime.max (DateMax); datetime arithmetic that *)
(* leaves this range raises OverflowError, as Python's does.  A timedelta  *)
(* is a whole number of seconds too, so that the strftime of seconds loses *)
(* nothing and half a timedelta is exact.  An epoch (et) is seconds past   *)
(* J2000.  The debugging plots (plot = True) are not modelled.             *)
(*                                                                         *)
(* Ephemeris provider.  SPICE is external to the repository.  The loaded   *)
(* kernel set is the variable orbit, fixed before any query: a periodic    *)
(* orbit of the spacecraft around Mercury.  A query can hit a gap in the   *)
(* kernel coverage; this is a nondeterministic choice at every query.      *)
(*                                                                         *)
(* Reals.  Positions are integer vectors.  The rotation of                 *)
(* Aberrate_Position has cosine c/k and sine s/k for a Pythagorean triple  *)
(* (c, s, k), and the provider's x and y components are multiples of k,    *)
(* so that the rotation is exact.  The epochs of Get_Trajectory are exact  *)
(* fractions with the common denominator steps.                            *)
(***************************************************************************)
EXTENDS Integers, Sequences, FiniteSets, TLC

VARIABLES
    orbit,               \* the loaded kernel set (the spacecraft's orbit)
    fn,                  \* the function being called, "none" before the call
    pc,                  \* "idle", "scan", "peaks", "reduce" or "done"
    args,                \* the arguments of the call
    current_time,        \* the loop variable of the altitude scan
    altitudes,           \* the altitude series sampled so far
    times,               \* the times sampled so far (epochs in Get_Trajectory)
    peak_indices,        \* the result of scipy.signal.find_peaks (from 1)
    apoapsis_altitudes,  \* the remaining apoapsis altitudes
    apoapsis_times,      \* the remaining apoapsis times
    outcome,             \* "none", "returned" or "raised"
    error,               \* the exception raised, "" when none
    result,              \* the value returned, None when none
    provider_failed      \* an ephemeris query of this call hit a gap

vars == <<orbit, fn, pc, args, current_time, altitudes, times, peak_indices,
          apoapsis_altitudes, apoapsis_times, outcome, error, result,
          provider_failed>>

----------------------------------------------------------------------------
(* Bounds of the model. *)

DateMax == 28
MaxStart == 1
EndStride == 4
MaxDelta == 2
MaxTarget == 2
MaxLimit == 4
MaxPeriod == 12
MaxFlat == 2
MaxSteps == 3
J2000 == 5

(* Program constants. *)

DipoleOffset == 479

None == "None"

Abs(n) == IF n < 0 THEN -n ELSE n

Min(a, b) == IF a < b THEN a ELSE b

InDateRange(t) == 0 <= t /\ t <= DateMax

----------------------------------------------------------------------------
(* The ephemeris provider. *)

Orbits ==
    {o \in [period : 2..MaxPeriod, phase : 0..(MaxPeriod - 1),
            flat : 1..MaxFlat, drift : BOOLEAN] :
        o.phase < o.period /\ o.flat < o.period}

\* spice.str2et(date.strftime("%Y-%m-%d %H:%M:%S")): seconds past J2000.
Et(date) == date - J2000

\* The spacecraft's distance from Mercury along the orbit, in units of
\* 15 km: flat samples at apoapsis, falling to periapsis and rising again;
\* with drift every second orbit is one unit higher.
Radius(et) ==
    LET n == et + orbit.phase
        u == n % orbit.period
        k == n \div orbit.period
        below == IF u < orbit.flat THEN 0
                 ELSE Min(u - orbit.flat + 1, orbit.period - u)
    IN  orbit.period + 1 - below + (IF orbit.drift THEN k % 2 ELSE 0)

\* spice.spkpos(spacecraft, et, "BC_MSO", "NONE", "MERCURY") when it succeeds.
SpacecraftPosition(et) ==
    LET h == Radius(et)
    IN  IF et % 2 = 0 THEN <<10 * h, 5 * h, 10 * h>>
        ELSE <<-10 * h, 5 * h, -10 * h>>

\* spice.spkpos("MERCURY", et, "J2000", "NONE", "SUN") when it succeeds,
\* reduced to the distance: Mercury is nearer to the Sun in every second
\* pair of seconds.
MercuryDistance(et) == IF (et \div 2) % 2 = 0 THEN "near" ELSE "far"

\* np.sqrt(x ** 2 + y ** 2 + z ** 2) of a position whose norm is an integer.
Norm(p) ==
    LET s == p[1] * p[1] + p[2] * p[2] + p[3] * p[3]
    IN  CHOOSE r \in 0..(Abs(p[1]) + Abs(p[2]) + Abs(p[3])) : r * r = s

----------------------------------------------------------------------------

Init ==
    /\ orbit \in Orbits
    /\ fn = "none"
    /\ pc = "idle"
    /\ args = None
    /\ current_time = 0
    /\ altitudes = <<>>
    /\ times = <<>>
    /\ peak_indices = <<>>
    /\ apoapsis_altitudes = <<>>
    /\ apoapsis_times = <<>>
    /\ outcome = "none"
    /\ error = ""
    /\ result = None
    /\ provider_failed = FALSE

\* The call ends with the exception e and returns nothing.
Raise(e) ==
    /\ pc' = "done"
    /\ outcome' = "raised"
    /\ error' = e
    /\ result' = None

\* The locals of the altitude scan, dropped when the scan raises.
DropScan ==
    /\ current_time' = 0
    /\ altitudes' = <<>>
    /\ times' = <<>>
    /\ UNCHANGED <<apoapsis_altitudes, apoapsis_times>>

Locals ==
    <<current_time, altitudes, times, peak_indices, apoapsis_altitudes,
      apoapsis_times>>

\* The call returns v.
Return(v) ==
    /\ pc' = "done"
    /\ outcome' = "returned"
    /\ error' = ""
    /\ result' = v

----------------------------------------------------------------------------
(* Get_Position *)

Get_Position ==
    /\ pc = "idle"
    /\ \E date \in 0..MaxLimit, gap \in BOOLEAN :
        /\ fn' = "Get_Position"
        /\ args' = [date |-> date]
        /\ provider_failed' = gap
        /\ Return(IF gap THEN None ELSE SpacecraftPosition(Et(date)))
    /\ UNCHANGED <<orbit, current_time, altitudes, times, peak_indices,
                   apoapsis_altitudes, apoapsis_times>>

----------------------------------------------------------------------------
(* Get_Range_From_Date *)

\* The argument is one datetime (single) or a list of datetimes.
DateArguments ==
    {[single |-> TRUE, dates |-> <<d>>] : d \in 0..MaxStart}
        \cup {[single |-> FALSE, dates |-> <<>>]}
        \cup {[single |-> FALSE, dates |-> <<d>>] : d \in 0..MaxStart}
        \cup {[single |-> FALSE, dates |-> <<d, e>>] :
                 d \in 0..MaxStart, e \in 0..MaxLimit}

Get_Range_From_Date ==
    /\ pc = "idle"
    /\ \E argument \in DateArguments, gap \in BOOLEAN :
        LET dates == argument.dates
            distances ==
                [i \in 1..Len(dates) |->
                    Norm(SpacecraftPosition(Et(dates[i])))]
        IN  /\ fn' = "Get_Range_From_Date"
            /\ args' = argument
            /\ provider_failed' = (gap /\ Len(dates) > 0)
            /\ IF gap /\ Len(dates) > 0
               THEN Raise("SpiceyError") /\ UNCHANGED Locals
               ELSE /\ Return(IF Len(distances) = 1 THEN distances[1]
                              ELSE distances)
                    /\ UNCHANGED <<current_time, altitudes, times,
                                   peak_indices, apoapsis_altitudes,
                                   apoapsis_times>>
    /\ UNCHANGED orbit

----------------------------------------------------------------------------
(* Aberrate_Position *)

\* The rotation of lines 172-189 as (cosine, sine, scale): vis-viva makes
\* Mercury faster nearer to the Sun, and the angle grows with the speed.
Rotation(distance) ==
    IF distance = "near" THEN <<3, 4, 5>> ELSE <<4, 3, 5>>

\* np.matmul(rotation_matrix, position)
Rotate(rot, position) ==
    <<(rot[1] * position[1] - rot[2] * position[2]) \div rot[3],
      (rot[2] * position[1] + rot[1] * position[2]) \div rot[3],
      position[3]>>

\* The value Aberrate_Position returns when the Mercury query succeeds;
\* the epoch is the fraction num / den.
Aberrated(position, num, den) ==
    Rotate(Rotation(MercuryDistance(num \div den)), position)

PositionArguments == {<<5, 0, 1>>, <<0, 5, 2>>, <<10, -5, 0>>, <<-5, -5, -3>>}

Aberrate_Position ==
    /\ pc = "idle"
    /\ \E position \in PositionArguments, spice_date \in (-2)..2,
          gap \in BOOLEAN :
        /\ fn' = "Aberrate_Position"
        /\ args' = [position |-> position, spice_date |-> spice_date]
        /\ provider_failed' = gap
        /\ IF gap
           THEN Raise("SpiceyError") /\ UNCHANGED Locals
           ELSE /\ Return(Aberrated(position, spice_date, 1))
                /\ UNCHANGED <<current_time, altitudes, times, peak_indices,
                               apoapsis_altitudes, apoapsis_times>>
    /\ UNCHANGED orbit

----------------------------------------------------------------------------
(* Get_Trajectory *)

Frames == {"MSO", "MSM", "J2000"}

\* SampleEpochs over range(1, steps + 1).
SampleEpochs_FromOne(et_one, et_two, steps) ==
    [i \in 1..steps |-> i * (et_two - et_one) + et_one * steps]

\* The epochs of line 118, each as its numerator over the denominator steps:
\* x * (et_two - et_one) / steps + et_one for x in range(steps).
SampleEpochs(et_one, et_two, steps) ==
    [i \in 1..steps |-> (i - 1) * (et_two - et_one) + et_one * steps]

\* ShiftToMSM adding the offset to every component: positions += 479.
ShiftToMSM_AllAxes(positions) ==
    [i \in 1..Len(positions) |->
        <<positions[i][1] + DipoleOffset, positions[i][2] + DipoleOffset,
          positions[i][3] + DipoleOffset>>]

\* positions[:, 2] += 479
ShiftToMSM(positions) ==
    [i \in 1..Len(positions) |->
        <<positions[i][1], positions[i][2], positions[i][3] + DipoleOffset>>]

\* Lines 122-137 on the positions the provider returned.
FramePositions(positions, epochs, steps, frame, aberrate) ==
    LET rotated ==
            IF aberrate
            THEN [i \in 1..Len(positions) |->
                     Aberrated(positions[i], epochs[i], steps)]
            ELSE positions
    IN  IF frame = "MSM" THEN ShiftToMSM(rotated) ELSE rotated

Get_Trajectory ==
    /\ pc = "idle"
    /\ \E date_one \in 0..MaxStart, date_two \in 0..MaxLimit,
          steps \in 1..MaxSteps, frame \in Frames, aberrate \in BOOLEAN,
          gap \in BOOLEAN, mercury_gap \in BOOLEAN :
        LET et_one == Et(date_one)
            et_two == Et(date_two)
            epochs == SampleEpochs(et_one, et_two, steps)
            positions ==
                [i \in 1..steps |-> SpacecraftPosition(epochs[i] \div steps)]
            failed == gap \/ (aberrate /\ mercury_gap)
        IN  /\ fn' = "Get_Trajectory"
            /\ args' = [dates |-> <<date_one, date_two>>, steps |-> steps,
                        frame |-> frame, aberrate |-> aberrate]
            /\ provider_failed' = failed
            /\ IF failed
               THEN Raise("SpiceyError") /\ UNCHANGED Locals
               ELSE /\ times' = epochs
                    /\ Return(FramePositions(positions, epochs, steps, frame,
                                             aberrate))
                    /\ UNCHANGED <<current_time, altitudes, peak_indices,
                                   apoapsis_altitudes, apoapsis_times>>
    /\ UNCHANGED orbit

----------------------------------------------------------------------------
(* The altitude scan and the peak detection of the two apoapsis finders *)

\* One pass of the loop body of lines 289-301 and of lines 396-408.
SampleAltitude(time_delta) ==
    \E gap \in BOOLEAN :
        IF gap
        THEN /\ provider_failed' = TRUE
             /\ Raise("SpiceyError")
             /\ DropScan
        ELSE /\ UNCHANGED provider_failed
             /\ IF InDateRange(current_time + time_delta)
                THEN /\ altitudes' =
                            Append(altitudes,
                                   Norm(SpacecraftPosition(Et(current_time))))
                     /\ times' = Append(times, current_time)
                     /\ current_time' = current_time + time_delta
                     /\ UNCHANGED <<pc, outcome, error, result,
                                    apoapsis_altitudes, apoapsis_times>>
                ELSE Raise("OverflowError") /\ DropScan

\* A scan of [first, last) with a step of a second or more makes at most
\* last - first passes; a scan is followed for one pass more.
ScanBounded(first, last) == Len(times) <= last - first

\* The inner loop of scipy's local maxima search: the first index after i
\* (from 0) that ends the run of samples equal to x[i].
RECURSIVE RunEnd(_, _, _)
RunEnd(x, i, i_ahead) ==
    IF i_ahead < Len(x) - 1 /\ x[i_ahead + 1] = x[i + 1]
    THEN RunEnd(x, i, i_ahead + 1)
    ELSE i_ahead

\* LocalMaxima with a run that is left on the level, not by a fall, also
\* taken for a peak.
RECURSIVE LocalMaxima_NoFall(_, _, _)
LocalMaxima_NoFall(x, i, midpoints) ==
    IF ~(i < Len(x) - 1)
    THEN midpoints
    ELSE IF x[i] < x[i + 1]
         THEN LET i_ahead == RunEnd(x, i, i + 1)
              IN  IF x[i_ahead + 1] <= x[i + 1]
                  THEN LocalMaxima_NoFall(x, i_ahead + 1,
                           Append(midpoints, (i + i_ahead - 1) \div 2))
                  ELSE LocalMaxima_NoFall(x, i + 1, midpoints)
         ELSE LocalMaxima_NoFall(x, i + 1, midpoints)

\* The outer loop of scipy's local maxima search, indices from 0: a run of
\* equal samples that is entered by a rise and left by a fall is a peak,
\* reported at the middle of the run, rounded down.
RECURSIVE LocalMaxima(_, _, _)
LocalMaxima(x, i, midpoints) ==
    IF ~(i < Len(x) - 1)
    THEN midpoints
    ELSE IF x[i] < x[i + 1]
         THEN LET i_ahead == RunEnd(x, i, i + 1)
              IN  IF x[i_ahead + 1] < x[i + 1]
                  THEN LocalMaxima(x, i_ahead + 1,
                                   Append(midpoints, (i + i_ahead - 1) \div 2))
                  ELSE LocalMaxima(x, i + 1, midpoints)
         ELSE LocalMaxima(x, i + 1, midpoints)

\* scipy.signal.find_peaks(x) with its default arguments; the indices
\* count from 1 here.
FindPeaks(x) ==
    LET midpoints == LocalMaxima(x, 1, <<>>)
    IN  [k \in 1..Len(midpoints) |-> midpoints[k] + 1]

\* np.array(values)[indices]
Take(values, indices) == [k \in 1..Len(indices) |-> values[indices[k]]]

----------------------------------------------------------------------------
(* Get_All_Apoapsis_In_Range *)

\* The argument number_of_orbits_to_include is first read at line 309; the
\* caller's choice of it is drawn there, and it is Unread until then.
Unread == -1

EndTimes == {t \in 0..DateMax : t % EndStride = 0}

Get_All_Apoapsis_In_Range ==
    /\ pc = "idle"
    /\ \E start_time \in 0..MaxStart, end_time \in EndTimes,
          time_delta \in (-1)..MaxDelta :
        /\ fn' = "Get_All_Apoapsis_In_Range"
        /\ args' = [start_time |-> start_time, end_time |-> end_time,
                    time_delta |-> time_delta,
                    number_of_orbits_to_include |-> Unread]
        /\ current_time' = start_time
    /\ pc' = "scan"
    /\ altitudes' = <<>>
    /\ times' = <<>>
    /\ UNCHANGED <<orbit, peak_indices, apoapsis_altitudes, apoapsis_times,
                   outcome, error, result, provider_failed>>

All_Scan ==
    /\ fn = "Get_All_Apoapsis_In_Range"
    /\ pc = "scan"
    /\ current_time < args.end_time
    /\ ScanBounded(args.start_time, args.end_time)
    /\ SampleAltitude(args.time_delta)
    /\ UNCHANGED <<orbit, fn, args, peak_indices>>

All_Find_Peaks ==
    /\ fn = "Get_All_Apoapsis_In_Range"
    /\ pc = "scan"
    /\ ~(current_time < args.end_time)
    /\ peak_indices' = FindPeaks(altitudes)
    /\ apoapsis_altitudes' = Take(altitudes, peak_indices')
    /\ apoapsis_times' = Take(times, peak_indices')
    /\ \E number_of_orbits_to_include \in 0..MaxTarget :
        args' = [args EXCEPT !.number_of_orbits_to_include =
                                 number_of_orbits_to_include]
    /\ pc' = "reduce"
    /\ UNCHANGED <<orbit, fn, current_time, altitudes, times, outcome,
                   error, result, provider_failed>>

\* A datetime in half seconds.
HalfSeconds(t) == 2 * t

\* Midpoint without its first term: (end_time - start_time) / 2.
Midpoint_FromZero(start_time, end_time) == end_time - start_time

\* start_time + (end_time - start_time) / 2, in half seconds: half a whole
\* number of seconds is a whole number of half seconds.
Midpoint(start_time, end_time) ==
    HalfSeconds(start_time) + (end_time - start_time)

\* np.delete(a, 0)
DeleteFirst(a) == Tail(a)

\* np.delete(a, -1)
DeleteLast(a) == SubSeq(a, 1, Len(a) - 1)

\* MustReduce with >= for > in the test of the loop.
MustReduce_AtLeast ==
    /\ args.number_of_orbits_to_include > 0
    /\ Len(apoapsis_altitudes) >= args.number_of_orbits_to_include

\* The test of the loop of line 313 under the test of line 309.
MustReduce ==
    /\ args.number_of_orbits_to_include > 0
    /\ Len(apoapsis_altitudes) > args.number_of_orbits_to_include

\* All_Reduce with the two removals exchanged: the nearer end is removed.
All_Reduce_Nearer ==
    /\ fn = "Get_All_Apoapsis_In_Range"
    /\ pc = "reduce"
    /\ MustReduce
    /\ LET first_apoapsis_time == apoapsis_times[1]
           last_apoapsis_time == apoapsis_times[Len(apoapsis_times)]
           midpoint == Midpoint(args.start_time, args.end_time)
           first_time_difference ==
               Abs(HalfSeconds(first_apoapsis_time) - midpoint)
           last_time_difference ==
               Abs(HalfSeconds(last_apoapsis_time) - midpoint)
       IN  IF first_time_difference > last_time_difference
           THEN /\ apoapsis_times' = DeleteLast(apoapsis_times)
                /\ apoapsis_altitudes' = DeleteLast(apoapsis_altitudes)
                /\ UNCHANGED <<pc, outcome, error, result, current_time,
                               altitudes, times>>
           ELSE IF last_time_difference > first_time_difference
           THEN /\ apoapsis_times' = DeleteFirst(apoapsis_times)
                /\ apoapsis_altitudes' = DeleteFirst(apoapsis_altitudes)
                /\ UNCHANGED <<pc, outcome, error, result, current_time,
                               altitudes, times>>
           ELSE /\ Raise("ValueError")
                /\ UNCHANGED <<current_time, altitudes, times,
                               apoapsis_altitudes, apoapsis_times>>
    /\ UNCHANGED <<orbit, fn, args, peak_indices, provider_failed>>

All_Reduce ==
    /\ fn = "Get_All_Apoapsis_In_Range"
    /\ pc = "reduce"
    /\ MustReduce
    /\ LET first_apoapsis_time == apoapsis_times[1]
           last_apoapsis_time == apoapsis_times[Len(apoapsis_times)]
           midpoint == Midpoint(args.start_time, args.end_time)
           first_time_difference ==
               Abs(HalfSeconds(first_apoapsis_time) - midpoint)
           last_time_difference ==
               Abs(HalfSeconds(last_apoapsis_time) - midpoint)
       IN  IF first_time_difference > last_time_difference
           THEN /\ apoapsis_times' = DeleteFirst(apoapsis_times)
                /\ apoapsis_altitudes' = DeleteFirst(apoapsis_altitudes)
                /\ UNCHANGED <<pc, outcome, error, result, current_time,
                               altitudes, times>>
           ELSE IF last_time_difference > first_time_difference
           THEN /\ apoapsis_times' = DeleteLast(apoapsis_times)
                /\ apoapsis_altitudes' = DeleteLast(apoapsis_altitudes)
                /\ UNCHANGED <<pc, outcome, error, result, current_time,
                               altitudes, times>>
           ELSE /\ Raise("ValueError")
                /\ UNCHANGED <<current_time, altitudes, times,
                               apoapsis_altitudes, apoapsis_times>>
    /\ UNCHANGED <<orbit, fn, args, peak_indices, provider_failed>>

All_Return ==
    /\ fn = "Get_All_Apoapsis_In_Range"
    /\ pc = "reduce"
    /\ ~MustReduce
    /\ Return(<<apoapsis_altitudes, apoapsis_times>>)
    /\ UNCHANGED <<orbit, fn, args, current_time, altitudes, times,
                   peak_indices, apoapsis_altitudes, apoapsis_times,
                   provider_failed>>

----------------------------------------------------------------------------
(* Get_Nearest_Apoapsis *)

SearchStart == args.time - args.time_limit

SearchEnd == args.time + args.time_limit

Get_Nearest_Apoapsis ==
    /\ pc = "idle"
    /\ \E time \in 0..(2 * MaxLimit), time_delta \in (-1)..MaxDelta,
          time_limit \in 0..MaxLimit :
        /\ fn' = "Get_Nearest_Apoapsis"
        /\ args' = [time |-> time, time_delta |-> time_delta,
                    time_limit |-> time_limit]
        /\ IF InDateRange(time - time_limit) /\ InDateRange(time + time_limit)
           THEN /\ current_time' = time - time_limit
                /\ pc' = "scan"
                /\ UNCHANGED <<outcome, error, result>>
           ELSE /\ Raise("OverflowError")
                /\ UNCHANGED current_time
    /\ altitudes' = <<>>
    /\ times' = <<>>
    /\ UNCHANGED <<orbit, peak_indices, apoapsis_altitudes, apoapsis_times,
                   provider_failed>>

Nearest_Scan ==
    /\ fn = "Get_Nearest_Apoapsis"
    /\ pc = "scan"
    /\ current_time < SearchEnd
    /\ ScanBounded(SearchStart, SearchEnd)
    /\ SampleAltitude(args.time_delta)
    /\ UNCHANGED <<orbit, fn, args, peak_indices>>

\* ArgMin taking the last index of the least element.
ArgMin_Last(a) ==
    CHOOSE k \in 1..Len(a) :
        /\ \A j \in 1..Len(a) : a[k] <= a[j]
        /\ \A j \in (k + 1)..Len(a) : a[j] > a[k]

\* np.argmin(a) of a non-empty a, counting from 1: the first index of the
\* least element.
ArgMin(a) ==
    CHOOSE k \in 1..Len(a) :
        /\ \A j \in 1..Len(a) : a[k] <= a[j]
        /\ \A j \in 1..(k - 1) : a[j] > a[k]

\* Lines 414-419.
TimeDistances(time, peaks, sampled) ==
    [k \in 1..Len(peaks) |-> Abs(time - sampled[peaks[k]])]

\* Nearest_Find falling back to the defaults of lines 384-385 when no peak
\* is detected.
Nearest_Find_Default ==
    /\ fn = "Get_Nearest_Apoapsis"
    /\ pc = "scan"
    /\ ~(current_time < SearchEnd)
    /\ peak_indices' = FindPeaks(altitudes)
    /\ LET time_distances == TimeDistances(args.time, peak_indices', times)
       IN  IF Len(time_distances) = 0
           THEN Return(<<args.time, 0>>)
           ELSE LET closest_apoapsis_index ==
                        peak_indices'[ArgMin(time_distances)]
                IN  Return(<<times[closest_apoapsis_index],
                             altitudes[closest_apoapsis_index]>>)
    /\ UNCHANGED <<orbit, fn, args, current_time, altitudes, times,
                   apoapsis_altitudes, apoapsis_times, provider_failed>>

Nearest_Find ==
    /\ fn = "Get_Nearest_Apoapsis"
    /\ pc = "scan"
    /\ ~(current_time < SearchEnd)
    /\ peak_indices' = FindPeaks(altitudes)
    /\ LET time_distances == TimeDistances(args.time, peak_indices', times)
       IN  IF Len(time_distances) = 0
           THEN Raise("ValueError")
           ELSE LET closest_apoapsis_index ==
                        peak_indices'[ArgMin(time_distances)]
                IN  Return(<<times[closest_apoapsis_index],
                             altitudes[closest_apoapsis_index]>>)
    /\ UNCHANGED <<orbit, fn, args, current_time, altitudes, times,
                   apoapsis_altitudes, apoapsis_times, provider_failed>>

----------------------------------------------------------------------------

Next ==
    \/ Get_Position
    \/ Get_Range_From_Date
    \/ Aberrate_Position
    \/ Get_Trajectory
    \/ Get_All_Apoapsis_In_Range
    \/ All_Scan
    \/ All_Find_Peaks
    \/ All_Reduce
    \/ All_Return
    \/ Get_Nearest_Apoapsis
    \/ Nearest_Scan
    \/ Nearest_Find

Spec == Init /\ [][Next]_vars

----------------------------------------------------------------------------
(* Properties *)

IsAll == fn = "Get_All_Apoapsis_In_Range"

IsNearest == fn = "Get_Nearest_Apoapsis"

IsTrajectory == fn = "Get_Trajectory"

\* The peaks find_peaks detected, as times and as altitudes.
DetectedTimes == Take(times, peak_indices)

DetectedAltitudes == Take(altitudes, peak_indices)

\* Twice the distance of the time t from the middle of the requested
\* interval of Get_All_Apoapsis_In_Range.
FromMiddle(t) == Abs(2 * t - (args.start_time + args.end_time))

StrictlyIncreasing(a) == \A k \in 1..(Len(a) - 1) : a[k] < a[k + 1]

\* C1, one pass of the reduction: the first and the last remaining peak are
\* compared by their distance from the middle of the interval; the strictly
\* farther one, and nothing else, is removed; when they are equally far the
\* call raises ValueError and returns nothing.
C1_ReductionStep ==
    (IsAll /\ pc = "reduce" /\ MustReduce) =>
        LET n == Len(apoapsis_times)
            first == FromMiddle(apoapsis_times[1])
            last == FromMiddle(apoapsis_times[n])
        IN  \/ /\ first > last
               /\ apoapsis_times' = SubSeq(apoapsis_times, 2, n)
               /\ apoapsis_altitudes' = SubSeq(apoapsis_altitudes, 2, n)
               /\ outcome' = "none"
            \/ /\ last > first
               /\ apoapsis_times' = SubSeq(apoapsis_times, 1, n - 1)
               /\ apoapsis_altitudes' = SubSeq(apoapsis_altitudes, 1, n - 1)
               /\ outcome' = "none"
            \/ /\ first = last
               /\ outcome' = "raised"
               /\ error' = "ValueError"
               /\ result' = None

\* C1, the example: peaks 10, 70 and 130 minutes into an interval of 140
\* minutes, in units of 5 minutes, with a target of 2.
C1_Example ==
    /\ IsAll
    /\ args.end_time - args.start_time = 28
    /\ args.number_of_orbits_to_include = 2
    /\ DetectedTimes = <<args.start_time + 2, args.start_time + 14,
                         args.start_time + 26>>

\* C1: every reduction step of Get_All_Apoapsis_In_Range removes exactly the
\* one of the first and the last remaining peak that is strictly farther
\* from the midpoint of the interval, and raises ValueError, returning
\* nothing, when the two are equally far; peaks at 10, 70 and 130 minutes of
\* a 140 minute interval with target 2 end in that error.
C1_TieRaises ==
    /\ [][C1_ReductionStep]_vars
    /\ []((C1_Example /\ pc = "done") =>
            (outcome = "raised" /\ error = "ValueError" /\ result = None))

C1_Witness ==
    /\ C1_Example
    /\ pc = "done"
    /\ error = "ValueError"

\* C2 as claimed: every reported apoapsis is an interior sample strictly
\* higher than both of its neighbours.
C2_StrictPeaks ==
    \A k \in 1..Len(peak_indices) :
        LET i == peak_indices[k]
        IN  /\ 1 < i
            /\ i < Len(altitudes)
            /\ altitudes[i - 1] < altitudes[i]
            /\ altitudes[i + 1] < altitudes[i]

\* The samples l..r of the series are equally high.
Level(l, r) == \A j \in l..r : altitudes[j] = altitudes[l]

\* C2: every apoapsis the Apoapsis Finder reports is an interior sample and
\* the middle (rounded down) of a run of equally high samples that does not
\* touch the first or the last sample and is strictly higher than the
\* sample before it and the sample after it; the first and the last sample
\* are never reported.
C2_PlateauPeaks ==
    \A k \in 1..Len(peak_indices) :
        LET i == peak_indices[k]
        IN  /\ 1 < i
            /\ i < Len(altitudes)
            /\ \E l \in 2..i, r \in i..(Len(altitudes) - 1) :
                /\ Level(l, r)
                /\ altitudes[l - 1] < altitudes[l]
                /\ altitudes[r + 1] < altitudes[r]
                /\ i = (l + r) \div 2

C2_Witness ==
    /\ IsNearest
    /\ outcome = "returned"
    /\ \E k \in 1..Len(peak_indices) :
        altitudes[peak_indices[k] + 1] = altitudes[peak_indices[k]]
    /\ \E k \in 1..Len(peak_indices) :
        altitudes[peak_indices[k] + 1] < altitudes[peak_indices[k]]

\* C3: when a peak is detected Get_Nearest_Apoapsis returns the time and the
\* altitude of a detected peak that is nearest to the reference time, the
\* earliest one when several are equally near; with peaks 3 hours before and
\* 1 hour after the reference it returns the one after.
C3_NearestPeak ==
    (IsNearest /\ pc = "done" /\ Len(peak_indices) > 0) =>
        /\ outcome = "returned"
        /\ \E k \in 1..Len(peak_indices) :
            result = <<times[peak_indices[k]], altitudes[peak_indices[k]]>>
        /\ \A k \in 1..Len(peak_indices) :
            LET t == times[peak_indices[k]]
            IN  /\ Abs(result[1] - args.time) <= Abs(t - args.time)
                /\ Abs(result[1] - args.time) = Abs(t - args.time)
                       => result[1] <= t
        /\ DetectedTimes = <<args.time - 3, args.time + 1>>
               => result[1] = args.time + 1

C3_Witness ==
    /\ IsNearest
    /\ outcome = "returned"
    /\ DetectedTimes = <<args.time - 3, args.time + 1>>
    /\ result[1] = args.time + 1

\* C4: when no peak is detected Get_Nearest_Apoapsis ends in an error and
\* returns nothing; what it returns is never its initial default, the
\* reference time with altitude 0.
C4_EmptySearchRaises ==
    (IsNearest /\ pc = "done") =>
        /\ Len(peak_indices) = 0 => (outcome = "raised" /\ result = None)
        /\ outcome = "returned" =>
            (Len(peak_indices) > 0 /\ result # <<args.time, 0>>)

C4_Witness ==
    /\ IsNearest
    /\ pc = "done"
    /\ error = "ValueError"
    /\ Len(altitudes) > 2
    /\ Len(peak_indices) = 0

\* C5: on a normal return of Get_All_Apoapsis_In_Range, with target 0 or
\* with no more detected peaks than the target all detected peaks are
\* returned unchanged; with a positive target and more detected peaks
\* exactly target peaks are returned.
C5_ReturnedCount ==
    (IsAll /\ outcome = "returned") =>
        LET target == args.number_of_orbits_to_include
            detected == Len(peak_indices)
        IN  /\ (target = 0 \/ detected <= target) =>
                result = <<DetectedAltitudes, DetectedTimes>>
            /\ (target > 0 /\ detected > target) =>
                (Len(result[1]) = target /\ Len(result[2]) = target)

C5_Witness ==
    /\ IsAll
    /\ outcome = "returned"
    /\ args.number_of_orbits_to_include > 0
    /\ Len(peak_indices) > args.number_of_orbits_to_include

\* C6: Get_Trajectory with steps = N and start epoch < end epoch queries N
\* epochs and returns N positions; the epochs are spaced by (end - start)/N
\* and strictly increasing, the first is the start epoch and the last is
\* before the end epoch.  (Epochs are numerators over N.)
C6_HalfOpenSampling ==
    (IsTrajectory /\ outcome = "returned"
        /\ Et(args.dates[1]) < Et(args.dates[2])) =>
        LET N == args.steps
            start == Et(args.dates[1])
            end == Et(args.dates[2])
        IN  /\ Len(times) = N
            /\ Len(result) = N
            /\ times[1] = start * N
            /\ \A i \in 1..(N - 1) : times[i + 1] - times[i] = end - start
            /\ StrictlyIncreasing(times)
            /\ times[N] < end * N

C6_Witness ==
    /\ IsTrajectory
    /\ outcome = "returned"
    /\ args.steps > 2
    /\ Et(args.dates[1]) < Et(args.dates[2])

\* C7: every failure of the Ephemeris Provider ends the call of the core
\* function that made the query with a raised failure.
C7_FailuresBubble == provider_failed => outcome = "raised"

\* What the provider and the aberration step give for sample i of the
\* Get_Trajectory call, before any change of frame.
UnshiftedSample(i) ==
    LET raw == SpacecraftPosition(times[i] \div args.steps)
    IN  IF args.aberrate
        THEN Rotate(Rotation(MercuryDistance(times[i] \div args.steps)), raw)
        ELSE raw

\* C8: with frame MSM every sample of Get_Trajectory is the MSO sample of
\* the same call with 479 added to its third component, once and after the
\* aberration; with frame MSO nothing is shifted.
C8_DipoleShift ==
    (IsTrajectory /\ outcome = "returned") =>
        /\ args.frame = "MSO" =>
            \A i \in 1..args.steps : result[i] = UnshiftedSample(i)
        /\ args.frame = "MSM" =>
            \A i \in 1..args.steps :
                /\ result[i][1] = UnshiftedSample(i)[1]
                /\ result[i][2] = UnshiftedSample(i)[2]
                /\ result[i][3] = UnshiftedSample(i)[3] + 479

C8_Witness ==
    /\ IsTrajectory
    /\ outcome = "returned"
    /\ args.frame = "MSM"
    /\ args.aberrate
    /\ args.steps > 1

\* The first argument and the end of the interval of the scan in progress.
ScanStart == IF IsAll THEN args.start_time ELSE SearchStart

ScanEnd == IF IsAll THEN args.end_time ELSE SearchEnd

\* C9: the altitude scan ends after finitely many queries: it samples the
\* times start + k * step of [start, end) and no other, in strictly
\* increasing order, as many altitudes as times.
C9_ScanTerminates ==
    ((IsAll \/ IsNearest) /\ pc # "idle" /\ outcome # "raised") =>
        /\ Len(altitudes) = Len(times)
        /\ StrictlyIncreasing(times)
        /\ \A k \in 1..Len(times) :
            /\ times[k] = ScanStart + (k - 1) * args.time_delta
            /\ ScanStart <= times[k]
            /\ times[k] < ScanEnd
        /\ pc # "scan" =>
            \A t \in ScanStart..(ScanEnd - 1) :
                (\E k \in 0..DateMax : t = ScanStart + k * args.time_delta)
                    => \E j \in 1..Len(times) : times[j] = t

\* The remaining peaks are the detected peaks lo..hi.
Remaining(lo, hi) ==
    /\ apoapsis_times = SubSeq(DetectedTimes, lo, hi)
    /\ apoapsis_altitudes = SubSeq(DetectedAltitudes, lo, hi)

\* C10: while Get_All_Apoapsis_In_Range reduces, the remaining peaks are a
\* run of the detected peaks in time order, altitudes paired with times, no
\* remaining peak is farther from the middle of the interval than both the
\* first and the last one, and every remaining peak is strictly nearer to
\* the middle than every removed peak; so are the peaks it returns.
C10_FarthestAtTheEnds ==
    (IsAll /\ pc \in {"reduce", "done"} /\ outcome # "raised") =>
        /\ StrictlyIncreasing(apoapsis_times)
        /\ \E lo \in 1..(Len(peak_indices) + 1),
              hi \in 0..Len(peak_indices) :
            /\ Remaining(lo, hi)
            /\ \A k \in lo..hi :
                \A j \in (1..Len(peak_indices)) \ (lo..hi) :
                    FromMiddle(DetectedTimes[k]) < FromMiddle(DetectedTimes[j])
        /\ \A k \in 1..Len(apoapsis_times) :
            \/ FromMiddle(apoapsis_times[k]) <= FromMiddle(apoapsis_times[1])
            \/ FromMiddle(apoapsis_times[k])
                   <= FromMiddle(apoapsis_times[Len(apoapsis_times)])
        /\ outcome = "returned" =>
            result = <<apoapsis_altitudes, apoapsis_times>>

C10_Witness ==
    /\ IsAll
    /\ outcome = "returned"
    /\ Len(peak_indices) > Len(result[2]) + 1
    /\ Len(result[2]) > 1
    /\ result[1][1] # result[1][2]

====
